---- MODULE Spec2Model ----
(***************************************************************************)
(* Student record service (src/app.py): five FastAPI handlers over the     *)
(* MongoDB collection db["students"].  The collection is the only shared   *)
(* state; every await on a storage call is a point where another request   *)
(* may run, so a handler is one action per storage call.                   *)
(***************************************************************************)
EXTENDS Integers, Sequences, FiniteSets, TLC

(* ------------------------------------------------------------------ *)
(* Bounds of the model and constants of the program                   *)
(* ------------------------------------------------------------------ *)

\* most documents the collection holds in the model
MaxDocs == 2

\* to_list(1000): the most documents list_students returns (scaled down)
ListLimit == 1

\* Field(..., le=4.0), in tenths of a grade point
GpaLe == 40

\* an ObjectId is 12 bytes, written as 24 hexadecimal characters
OidBytes == 12

Procs == {"r1", "r2"}

Fields == {"name", "email", "course", "gpa"}

None == <<>>

(* ------------------------------------------------------------------ *)
(* Identifiers: bson.ObjectId and its string form                      *)
(* ------------------------------------------------------------------ *)

HexDigits == <<"0", "1", "2", "3", "4", "5", "6", "7", "8", "9",
               "a", "b", "c", "d", "e", "f">>

HexChars == {HexDigits[i] : i \in 1..16} \cup {"A", "B", "C", "D", "E", "F"}

HexVal(c) ==
    IF c \in {"A", "B", "C", "D", "E", "F"}
    THEN CASE c = "A" -> 10 [] c = "B" -> 11 [] c = "C" -> 12
           [] c = "D" -> 13 [] c = "E" -> 14 [] c = "F" -> 15
    ELSE (CHOOSE i \in 1..16 : HexDigits[i] = c) - 1

\* ObjectId.is_valid(v) for a string v: 24 hexadecimal characters
is_valid(v) ==
    /\ Len(v) = 2 * OidBytes
    /\ \A i \in 1..Len(v) : v[i] \in HexChars

\* ObjectId(v): the 12 bytes the string spells
ObjectId(v) ==
    [i \in 1..OidBytes |-> 16 * HexVal(v[2 * i - 1]) + HexVal(v[2 * i])]

\* str(oid): lowercase hexadecimal, two characters a byte
str(oid) ==
    [i \in 1..(2 * OidBytes) |->
        IF i % 2 = 1 THEN HexDigits[(oid[(i + 1) \div 2] \div 16) + 1]
                     ELSE HexDigits[(oid[i \div 2] % 16) + 1]]

Rep(c, n) == [i \in 1..n |-> c]

\* the ObjectIds default_factory=PyObjectId may produce
GeneratedOids == {Rep(170, OidBytes), Rep(187, OidBytes), Rep(204, OidBytes)}

\* identifier strings a client may send, in a path or as "_id" of a body
IdStrings ==
    { Rep("a", 2 * OidBytes), Rep("b", 2 * OidBytes), Rep("A", 2 * OidBytes),
      <<"n", "o", "t", "-", "a", "-", "v", "a", "l", "i", "d", "-", "i", "d">> }

(* ------------------------------------------------------------------ *)
(* Request bodies                                                      *)
(* ------------------------------------------------------------------ *)

Names == {"Jane Doe", "John Roe"}
Courses == {"Nanophotonics"}

\* grade points, in tenths: below, at and above the limit of StudentModel
Gpas == {30, 40, 45}

\* a key of the JSON body is absent (or null): {}, or carries a value: {v}
Opt(S) == {{}} \cup {{v} : v \in S}

Val(o) == CHOOSE v \in o : TRUE

\* EmailStr: the syntax check of an e-mail address
IsEmail(s) == s \in {"jdoe@example.com"}

\* a well-formed body of POST /, the starting point of the malformed ones
BaseBody ==
    [_id |-> {}, name |-> {"Jane Doe"}, email |-> {"jdoe@example.com"},
     course |-> {"Nanophotonics"}, gpa |-> {40}]

\* bodies of POST /: every well-shaped body over the grade points gpas, and a
\* body for each way of being malformed
StudentBodies(gpas) ==
    [_id : Opt(IdStrings), name : {{v} : v \in Names},
     email : {{"jdoe@example.com"}}, course : {{v} : v \in Courses},
     gpa : {{v} : v \in gpas}]
    \cup {[BaseBody EXCEPT !.name = {}], [BaseBody EXCEPT !.email = {}],
          [BaseBody EXCEPT !.email = {"not-an-email"}],
          [BaseBody EXCEPT !.course = {}], [BaseBody EXCEPT !.gpa = {}],
          [BaseBody EXCEPT !.gpa = {45}]}

\* bodies of PUT /{id}: every subset of the fields with every value over the
\* grade points gpas, and a body with a malformed e-mail address
UpdateBodies(gpas) ==
    [name : Opt(Names), email : Opt({"jdoe@example.com"}),
     course : Opt(Courses), gpa : Opt(gpas)]
    \cup {[name |-> {}, email |-> {"not-an-email"}, course |-> {}, gpa |-> {}]}

VARIABLES
    students,   \* db["students"]: the documents, in insertion order
    pc,         \* per request slot: where its handler is suspended
    local,      \* per request slot: the locals the handler still reads, and
                \* the document create_student sent to storage
    response,   \* the response sent by the latest step, if any
    lastCall,   \* the storage call issued by the latest step, if any
    client      \* per request slot: the client's script, if it follows one

vars == <<students, pc, local, response, lastCall, client>>

NoLocal == [id |-> None, modified |-> FALSE, student |-> None]
NoResponse == [op |-> "none", id |-> None, status |-> 0, content |-> None]
NoCall == [call |-> "none", id |-> None]
Free == [state |-> "free"]

Init ==
    /\ students = <<>>
    /\ pc = [p \in Procs |-> "idle"]
    /\ local = [p \in Procs |-> NoLocal]
    /\ response = NoResponse
    /\ lastCall = NoCall
    /\ client = [p \in Procs |-> Free]

(* ------------------------------------------------------------------ *)
(* The storage primitives of the collection                            *)
(* ------------------------------------------------------------------ *)

Min(S) == CHOOSE i \in S : \A j \in S : i <= j

Ids(c) == {c[i]["_id"] : i \in 1..Len(c)}

\* positions of the documents that match the filter {"_id": id}
Matching(c, id) == {i \in 1..Len(c) : c[i]["_id"] = id}

find_one(c, id) ==
    IF Matching(c, id) = {} THEN None ELSE c[Min(Matching(c, id))]

\* insert_one with no unique index on _id
insert_one_accepts_any(c, doc) == TRUE

\* the unique index on _id: insert_one raises DuplicateKeyError on a clash
insert_one_accepts(c, doc) == doc["_id"] \notin Ids(c)

insert_one(c, doc) == Append(c, doc)

\* {"$set": student} applied to one document
set_fields(doc, student) ==
    [k \in DOMAIN doc \cup DOMAIN student |->
        IF k \in DOMAIN student THEN student[k] ELSE doc[k]]

\* update_many with an empty filter: every document is written
update_one_many(c, id, student) ==
    [i \in 1..Len(c) |-> set_fields(c[i], student)]

\* update_one with upsert=True: a filter that matches nothing inserts
update_one_upsert(c, id, student) ==
    IF Matching(c, id) = {}
    THEN Append(c, set_fields([_id |-> id], student))
    ELSE [c EXCEPT ![Min(Matching(c, id))] = set_fields(@, student)]

update_one(c, id, student) ==
    IF Matching(c, id) = {} THEN c
    ELSE [c EXCEPT ![Min(Matching(c, id))] = set_fields(@, student)]

\* update_result.modified_count
modified_count(c, id, student) ==
    IF update_one(c, id, student) = c THEN 0 ELSE 1

delete_one(c, id) ==
    IF Matching(c, id) = {} THEN c
    ELSE LET k == Min(Matching(c, id))
         IN  [i \in 1..(Len(c) - 1) |-> IF i < k THEN c[i] ELSE c[i + 1]]

\* a handler that does not look at deleted_count
deleted_count_unchecked(c, id) == 1

\* delete_result.deleted_count
deleted_count(c, id) == IF Matching(c, id) = {} THEN 0 ELSE 1

\* find().to_list(n)
to_list(c, n) == SubSeq(c, 1, IF Len(c) < n THEN Len(c) ELSE n)

(* ------------------------------------------------------------------ *)
(* The pydantic models                                                 *)
(* ------------------------------------------------------------------ *)

\* PyObjectId.validate accepts the value
PyObjectId_validate_ok(v) == is_valid(v)

\* StudentModel(**body) passes validation
StudentModel_valid(body) ==
    /\ body["_id"] # {} => PyObjectId_validate_ok(Val(body["_id"]))
    /\ body.name # {}
    /\ body.email # {} /\ IsEmail(Val(body.email))
    /\ body.course # {}
    /\ body.gpa # {} /\ Val(body.gpa) <= GpaLe

\* the ids StudentModel.id may take for a body: the client's, or a fresh one
StudentModel_ids(body) ==
    IF body["_id"] # {} THEN {ObjectId(Val(body["_id"]))} ELSE GeneratedOids

\* jsonable_encoder(student): by alias, the ObjectId as its string
jsonable_encoder(body, oid) ==
    [_id |-> str(oid), name |-> Val(body.name), email |-> Val(body.email),
     course |-> Val(body.course), gpa |-> Val(body.gpa)]

\* UpdateStudentModel(**body) passes validation
UpdateStudentModel_valid(body) ==
    body.email # {} => IsEmail(Val(body.email))

\* a patch model whose absent fields default to the example's values
filter_none_defaults(body) ==
    [k \in Fields |->
        IF body[k] # {} THEN Val(body[k])
        ELSE CASE k = "name" -> "Jane Doe" [] k = "email" -> "jdoe@example.com"
               [] k = "course" -> "Nanophotonics" [] k = "gpa" -> 30]

\* {k: v for k, v in student.dict().items() if v is not None}
filter_none(body) ==
    [k \in {f \in Fields : body[f] # {}} |-> Val(body[k])]

\* response_model=StudentModel: the returned document passes StudentModel
response_valid(doc) ==
    /\ PyObjectId_validate_ok(doc["_id"])
    /\ IsEmail(doc.email)
    /\ doc.gpa <= GpaLe

\* the response for a returned document under response_model=StudentModel
model_response(op, id, doc) ==
    IF response_valid(doc)
    THEN [op |-> op, id |-> id, status |-> 200, content |-> doc]
    ELSE [op |-> op, id |-> id, status |-> 500, content |-> None]

not_found(op, id) == [op |-> op, id |-> id, status |-> 404, content |-> None]

Idle(p) == pc[p] = "idle"

Finish(p, r) ==
    /\ pc' = [pc EXCEPT ![p] = "idle"]
    /\ local' = [local EXCEPT ![p] = NoLocal]
    /\ response' = r

Suspend(p, at, l) ==
    /\ pc' = [pc EXCEPT ![p] = at]
    /\ local' = [local EXCEPT ![p] = l]
    /\ response' = NoResponse

(* ------------------------------------------------------------------ *)
(* POST /                                                              *)
(* ------------------------------------------------------------------ *)

\* the body fails StudentModel: 422 before the handler runs
create_student_invalid(p, body) ==
    /\ Idle(p)
    /\ ~StudentModel_valid(body)
    /\ Finish(p, [op |-> "create", id |-> None, status |-> 422, content |-> None])
    /\ lastCall' = NoCall
    /\ UNCHANGED students

\* lines 110-113: encode, insert_one
create_student(p, body) ==
    /\ Idle(p)
    /\ StudentModel_valid(body)
    /\ \E oid \in StudentModel_ids(body) :
         LET student == jsonable_encoder(body, oid)
         IN  /\ lastCall' = [call |-> "insert_one", id |-> student["_id"]]
             /\ IF insert_one_accepts(students, student)
                THEN /\ Len(students) < MaxDocs
                     /\ students' = insert_one(students, student)
                     /\ Suspend(p, "create_find",
                                [id |-> student["_id"], modified |-> FALSE,
                                 student |-> student])
                ELSE /\ UNCHANGED students
                     /\ Finish(p, [op |-> "create", id |-> None,
                                   status |-> 500, content |-> None])

\* lines 117-121: find_one by inserted_id, JSONResponse 201
create_student_find(p) ==
    /\ pc[p] = "create_find"
    /\ lastCall' = [call |-> "find_one", id |-> local[p].id]
    /\ Finish(p, [op |-> "create", id |-> None, status |-> 201,
                   content |-> find_one(students, local[p].id)])
    /\ UNCHANGED students

(* ------------------------------------------------------------------ *)
(* GET /                                                               *)
(* ------------------------------------------------------------------ *)

list_students(p) ==
    /\ Idle(p)
    /\ lastCall' = [call |-> "find", id |-> None]
    /\ LET docs == to_list(students, ListLimit)
       IN  Finish(p, IF \A i \in 1..Len(docs) : response_valid(docs[i])
                     THEN [op |-> "list", id |-> None, status |-> 200,
                           content |-> docs]
                     ELSE [op |-> "list", id |-> None, status |-> 500,
                           content |-> None])
    /\ UNCHANGED students

(* ------------------------------------------------------------------ *)
(* GET /{id}                                                           *)
(* ------------------------------------------------------------------ *)

\* a lookup by ObjectId(id), which no stored string _id equals
show_student_objectid(p, id) ==
    /\ Idle(p)
    /\ lastCall' = [call |-> "find_one", id |-> id]
    /\ LET student == IF is_valid(id) THEN find_one(students, ObjectId(id))
                      ELSE None
       IN  Finish(p, IF student # None
                     THEN model_response("show", id, student)
                     ELSE not_found("show", id))
    /\ UNCHANGED students

show_student(p, id) ==
    /\ Idle(p)
    /\ lastCall' = [call |-> "find_one", id |-> id]
    /\ LET student == find_one(students, id)
       IN  Finish(p, IF student # None
                     THEN model_response("show", id, student)
                     ELSE not_found("show", id))
    /\ UNCHANGED students

(* ------------------------------------------------------------------ *)
(* PUT /{id}                                                           *)
(* ------------------------------------------------------------------ *)

update_student_invalid(p, id, body) ==
    /\ Idle(p)
    /\ ~UpdateStudentModel_valid(body)
    /\ Finish(p, [op |-> "update", id |-> id, status |-> 422, content |-> None])
    /\ lastCall' = NoCall
    /\ UNCHANGED students

\* lines 166-173: a non-empty filtered patch goes to update_one
update_student(p, id, body) ==
    /\ Idle(p)
    /\ UpdateStudentModel_valid(body)
    /\ LET student == filter_none(body)
       IN  /\ DOMAIN student # {}
           /\ lastCall' = [call |-> "update_one", id |-> id]
           /\ students' = update_one(students, id, student)
           /\ IF modified_count(students, id, student) = 1
              THEN Suspend(p, "update_refetch",
                           [id |-> id, modified |-> TRUE, student |-> None])
              ELSE Suspend(p, "update_fallback",
                           [id |-> id, modified |-> FALSE, student |-> None])

\* lines 166, 172, 183-189: an empty filtered patch goes straight to find_one
update_student_empty(p, id, body) ==
    /\ Idle(p)
    /\ UpdateStudentModel_valid(body)
    /\ DOMAIN filter_none(body) = {}
    /\ lastCall' = [call |-> "find_one", id |-> id]
    /\ LET existing_student == find_one(students, id)
       IN  Finish(p, IF existing_student # None
                     THEN model_response("update", id, existing_student)
                     ELSE not_found("update", id))
    /\ UNCHANGED students

\* lines 175-179: modified_count == 1, re-fetch the document
update_student_refetch(p) ==
    /\ pc[p] = "update_refetch"
    /\ lastCall' = [call |-> "find_one", id |-> local[p].id]
    /\ LET updated_student == find_one(students, local[p].id)
       IN  IF updated_student # None
           THEN Finish(p, model_response("update", local[p].id, updated_student))
           ELSE Suspend(p, "update_fallback", local[p])
    /\ UNCHANGED students

\* a handler that raises 404 without the second find_one
update_student_fallback_no_lookup(p) ==
    /\ pc[p] = "update_fallback"
    /\ lastCall' = NoCall
    /\ Finish(p, not_found("update", local[p].id))
    /\ UNCHANGED students

\* lines 183-189: look for the existing document, else 404
update_student_fallback(p) ==
    /\ pc[p] = "update_fallback"
    /\ lastCall' = [call |-> "find_one", id |-> local[p].id]
    /\ LET existing_student == find_one(students, local[p].id)
       IN  Finish(p, IF existing_student # None
                     THEN model_response("update", local[p].id, existing_student)
                     ELSE not_found("update", local[p].id))
    /\ UNCHANGED students

(* ------------------------------------------------------------------ *)
(* DELETE /{id}                                                        *)
(* ------------------------------------------------------------------ *)

delete_student(p, id) ==
    /\ Idle(p)
    /\ lastCall' = [call |-> "delete_one", id |-> id]
    /\ students' = delete_one(students, id)
    /\ Finish(p, IF deleted_count(students, id) = 1
                 THEN [op |-> "delete", id |-> id, status |-> 204,
                       content |-> None]
                 ELSE not_found("delete", id))

(* ------------------------------------------------------------------ *)
(* Specifications                                                      *)
(* ------------------------------------------------------------------ *)

\* the requests the clients send, sorted by the handler path they take
Inputs(gpas) ==
    LET valid_update ==
            {b \in UpdateBodies(gpas) : UpdateStudentModel_valid(b)}
    IN  [create_invalid |->
             {b \in StudentBodies(gpas) : ~StudentModel_valid(b)},
         create |-> {b \in StudentBodies(gpas) : StudentModel_valid(b)},
         update_invalid |-> UpdateBodies(gpas) \ valid_update,
         update |-> {b \in valid_update : DOMAIN filter_none(b) # {}},
         update_empty |-> {b \in valid_update : DOMAIN filter_none(b) = {}}]

\* one request at a time: every grade point
SeqInputs == Inputs(Gpas)

\* concurrent requests: the grade point at the limit
ConcInputs == Inputs({40})

\* one step of the handler running in request slot p, for a request of inp
Step(p, inp) ==
    \/ \E body \in inp.create_invalid :
           create_student_invalid(p, body) /\ UNCHANGED client
    \/ \E body \in inp.create :
           create_student(p, body) /\ UNCHANGED client
    \/ create_student_find(p) /\ UNCHANGED client
    \/ list_students(p) /\ UNCHANGED client
    \/ \E id \in IdStrings : show_student(p, id) /\ UNCHANGED client
    \/ \E id \in IdStrings, body \in inp.update_invalid :
           update_student_invalid(p, id, body) /\ UNCHANGED client
    \/ \E id \in IdStrings, body \in inp.update :
           update_student(p, id, body) /\ UNCHANGED client
    \/ \E id \in IdStrings, body \in inp.update_empty :
           update_student_empty(p, id, body) /\ UNCHANGED client
    \/ update_student_refetch(p) /\ UNCHANGED client
    \/ update_student_fallback(p) /\ UNCHANGED client
    \/ \E id \in IdStrings : delete_student(p, id) /\ UNCHANGED client

\* requests run concurrently: any slot may take its next step
Next == \E p \in Procs : Step(p, ConcInputs)

Spec == Init /\ [][Next]_vars

\* requests run one at a time: a single slot serves them all
SeqNext == Step("r1", SeqInputs)

SeqSpec == Init /\ [][SeqNext]_vars

(* ------------------------------------------------------------------ *)
(* Two clients, each sending one PUT to the same stored document       *)
(* ------------------------------------------------------------------ *)

RaceId == Rep("a", 2 * OidBytes)

\* the documents the service can have stored under RaceId
RaceDocs ==
    [_id : {RaceId}, name : Names, email : {"jdoe@example.com"},
     course : Courses, gpa : Gpas]

RaceBodies == SeqInputs.update \cup SeqInputs.update_empty

\* another stored document, which no client of the race addresses
OtherDoc ==
    [_id |-> Rep("b", 2 * OidBytes), name |-> "John Roe",
     email |-> "jdoe@example.com", course |-> "Nanophotonics", gpa |-> 30]

RaceInit ==
    /\ students \in {<<d>> : d \in RaceDocs}
                      \cup {<<OtherDoc, d>> : d \in RaceDocs}
    /\ pc = [p \in Procs |-> "idle"]
    /\ local = [p \in Procs |-> NoLocal]
    /\ response = NoResponse
    /\ lastCall = NoCall
    /\ \E b \in [Procs -> RaceBodies] :
         client = [p \in Procs |->
                      [state |-> "ready", patch |-> b[p],
                       prior |-> find_one(students, RaceId)]]

\* the client of slot p has its response once the slot is idle again
Answered(p) ==
    client' = [client EXCEPT ![p].state =
                  IF pc'[p] = "idle" THEN "done" ELSE "sent"]

RaceNext ==
    \E p \in Procs :
        \/ /\ client[p].state = "ready"
           /\ update_student(p, RaceId, client[p].patch)
           /\ Answered(p)
        \/ /\ client[p].state = "ready"
           /\ update_student_empty(p, RaceId, client[p].patch)
           /\ Answered(p)
        \/ /\ client[p].state = "sent"
           /\ update_student_refetch(p)
           /\ Answered(p)
        \/ /\ client[p].state = "sent"
           /\ update_student_fallback(p)
           /\ Answered(p)

RaceSpec == RaceInit /\ [][RaceNext]_vars

(* ------------------------------------------------------------------ *)
(* Properties                                                          *)
(* ------------------------------------------------------------------ *)

DocKeys == Fields \cup {"_id"}

SameFields(a, b) == \A f \in Fields : a[f] = b[f]

NoDup(c) == \A i, j \in 1..Len(c) : c[i]["_id"] = c[j]["_id"] => i = j

\* C1: round trip, one request at a time.  create_student sends the fields of
\* the body to storage, answers 201 with a document that has a well-formed id
\* and those fields, and a GET of the returned id as the very next request
\* answers 200 with the same document.
C1_RoundTrip ==
    [][/\ lastCall'.call = "insert_one" =>
            \A body \in SeqInputs.create :
                (create_student("r1", body) /\ pc'["r1"] = "create_find") =>
                    \A f \in Fields : local'["r1"].student[f] = Val(body[f])
       /\ create_student_find("r1") =>
            /\ response'.status = 201
            /\ DOMAIN response'.content = DocKeys
            /\ is_valid(response'.content["_id"])
            /\ SameFields(response'.content, local["r1"].student)
       /\ (/\ response.op = "create"
           /\ response.status = 201
           /\ DOMAIN response.content = DocKeys
           /\ show_student("r1", response.content["_id"])) =>
            /\ response'.status = 200
            /\ response'.content = response.content]_vars

\* a GET has just returned a document that a POST stored with gpa 3.0
C1_Witness ==
    /\ response.op = "show"
    /\ response.status = 200
    /\ response.content.gpa = 30
    /\ response.content.name = "John Roe"

AllDone == \A p \in Procs : client[p].state = "done"

\* the fields the patch of client p writes
Written(p) == {f \in Fields : client[p].patch[f] # {}}

\* C2: partial update isolation.  The step in which a client's PUT reaches
\* storage sets, in the document with the request's id, exactly the fields
\* present in the patch to the patch's values; its other fields, its _id,
\* every other document and the number of documents stay as they were, and no
\* later step of a PUT writes.
C2_UpdateIsolation ==
    [][/\ \A p \in Procs :
            (client[p].state = "ready" /\ client'[p].state # "ready") =>
                /\ Len(students') = Len(students)
                /\ \A i \in 1..Len(students) :
                     IF students[i]["_id"] = RaceId
                     THEN /\ DOMAIN students'[i] = DocKeys
                          /\ students'[i]["_id"] = students[i]["_id"]
                          /\ \A f \in Fields :
                               students'[i][f] =
                                 IF client[p].patch[f] # {}
                                 THEN Val(client[p].patch[f])
                                 ELSE students[i][f]
                     ELSE students'[i] = students[i]
       /\ (\A p \in Procs :
               client[p].state = "ready" => client'[p].state = "ready") =>
            students' = students]_vars

\* a PUT has just modified the gpa, and nothing else, of one of two documents
C2_Witness ==
    /\ client["r1"].state = "sent"
    /\ client["r2"].state = "ready"
    /\ pc["r1"] = "update_refetch"
    /\ Written("r1") = {"gpa"}
    /\ Len(students) = 2

\* the last step of a PUT that wrote nothing new: an empty patch (answered in
\* one step), or a patch that update_one found to change nothing
NoOpUpdateStep ==
    \/ pc["r1"] = "idle" /\ response'.op = "update" /\ response'.status # 422
    \/ /\ pc["r1"] = "update_fallback"
       /\ ~local["r1"].modified
       /\ response'.op = "update"

\* C3: no-op equivalence, one request at a time.  A PUT on a stored id with an
\* empty patch, or with a patch that equals the stored values, answers 200
\* with the stored document and leaves the collection as it was; the empty
\* patch issues no write.
C3_NoOpEquivalence ==
    [][(NoOpUpdateStep /\ response'.id \in Ids(students)) =>
            /\ response'.status = 200
            /\ response'.content = find_one(students, response'.id)
            /\ students' = students
            /\ pc["r1"] = "idle" => lastCall'.call = "find_one"]_vars

\* C4: delete then absent.  delete_one on a stored id answers 204 and removes
\* that document and no other; on an id that is not stored DELETE and GET
\* answer 404 and change nothing; an id enters the collection only by the
\* insert_one of a POST.
C4_DeleteThenAbsent ==
    [][/\ lastCall'.call = "delete_one" =>
            IF lastCall'.id \in Ids(students)
            THEN /\ response'.op = "delete"
                 /\ response'.status = 204
                 /\ lastCall'.id \notin Ids(students')
                 /\ Len(students') = Len(students) - 1
                 /\ \A i \in 1..Len(students) :
                      students[i]["_id"] # lastCall'.id =>
                          \E j \in 1..Len(students') :
                              students'[j] = students[i]
            ELSE /\ response'.op = "delete"
                 /\ response'.status = 404
                 /\ students' = students
       /\ (response'.op = "show" /\ response'.id \notin Ids(students)) =>
            /\ response'.status = 404
            /\ students' = students
       /\ Ids(students') \ Ids(students) # {} =>
            lastCall'.call = "insert_one"]_vars

\* a DELETE has just removed one of two documents
C4_Witness ==
    /\ response.op = "delete"
    /\ response.status = 204
    /\ Len(students) = 1

\* C5: every stored student has gpa <= 4.0
C5_GpaInvariant ==
    \A i \in 1..Len(students) : students[i].gpa <= GpaLe

\* C6, as claimed: no find_one, update_one or delete_one is issued with an
\* identifier that is not well-formed
C6_ValidatedBeforeStorage ==
    lastCall.call \in {"find_one", "update_one", "delete_one"} =>
        is_valid(lastCall.id)

\* C6, as the code has it: every stored _id is well-formed; a storage call
\* with a malformed identifier changes nothing; a GET, PUT or DELETE with a
\* malformed identifier ends in 404 straight after a find_one or delete_one
\* with that identifier, or (a PUT with an invalid body) in 422 with no call.
C6_MalformedIdNotFound ==
    [][/\ \A i \in 1..Len(students') : is_valid(students'[i]["_id"])
       /\ (lastCall'.call \in {"find_one", "update_one", "delete_one"}
              /\ ~is_valid(lastCall'.id)) => students' = students
       /\ (response'.op \in {"show", "update", "delete"}
              /\ ~is_valid(response'.id)) =>
            \/ /\ response'.status = 404
               /\ lastCall'.call \in {"find_one", "delete_one"}
               /\ lastCall'.id = response'.id
            \/ /\ response'.op = "update"
               /\ response'.status = 422
               /\ lastCall'.call = "none"]_vars

\* a PUT with a malformed identifier has been answered 404 after its find_one
C6_Witness ==
    /\ response.op = "update"
    /\ response.status = 404
    /\ ~is_valid(response.id)
    /\ lastCall = [call |-> "find_one", id |-> response.id]
    /\ Len(students) = 1

\* C7: identity.  No two stored documents share an _id; the collection grows
\* only by an insert_one that appends one document under an _id no stored
\* document had, leaving the others as they were; the _id of a stored
\* document never changes, and a removal leaves the other documents' ids.
C7_Identity ==
    [][/\ NoDup(students) /\ NoDup(students')
       /\ Len(students') > Len(students) =>
            /\ lastCall'.call = "insert_one"
            /\ Len(students') = Len(students) + 1
            /\ SubSeq(students', 1, Len(students)) = students
            /\ students'[Len(students')]["_id"] \notin Ids(students)
       /\ Len(students') = Len(students) =>
            \A i \in 1..Len(students) :
                students'[i]["_id"] = students[i]["_id"]
       /\ Len(students') < Len(students) =>
            \A j \in 1..Len(students') :
                \E i \in 1..Len(students) : students'[j] = students[i]]_vars

\* a POST has been answered 201 with two documents stored, while another
\* request is suspended
C7_Witness ==
    /\ response.op = "create"
    /\ response.status = 201
    /\ Len(students) = 2
    /\ \E p \in Procs : pc[p] # "idle"

Smaller(a, b) == IF a < b THEN a ELSE b

\* C8: GET / answers 200 with the first min(n, ListLimit) of the n stored
\* documents
C8_ListBound ==
    response.op = "list" =>
        /\ response.status = 200
        /\ Len(response.content) = Smaller(Len(students), ListLimit)
        /\ \A i \in 1..Len(response.content) :
               response.content[i] = students[i]

\* C9: field-level last write wins.  When both PUTs on the stored document
\* have been answered, a field written by one patch only holds that patch's
\* value, a field written by both holds the value of one of them, a field
\* written by neither holds its prior value, and the _id is the prior one.
C9_FieldLastWriteWins ==
    AllDone =>
        LET doc == find_one(students, RaceId)
        IN  /\ DOMAIN doc = DocKeys
            /\ \A f \in Fields :
                 LET writers == {p \in Procs : f \in Written(p)}
                 IN  IF writers = {}
                     THEN doc[f] = client["r1"].prior[f]
                     ELSE \E p \in writers : doc[f] = Val(client[p].patch[f])

\* both PUTs are answered: they wrote different names, only one wrote the gpa,
\* and neither wrote the course
C9_Witness ==
    /\ AllDone
    /\ "name" \in Written("r1") \cap Written("r2")
    /\ client["r1"].patch.name # client["r2"].patch.name
    /\ "gpa" \in Written("r1") \ Written("r2")
    /\ find_one(students, RaceId).gpa # client["r1"].prior.gpa
    /\ "course" \notin Written("r1") \cup Written("r2")

\* the step in which the PUT of slot p is answered 404 after an update_one
Update404(p) ==
    /\ pc[p] \in {"update_refetch", "update_fallback"}
    /\ pc'[p] = "idle"
    /\ response'.op = "update"
    /\ response'.status = 404

\* C10, as claimed: a PUT that ends in 404 has modified no document
C10_FailedUpdateNoEffect ==
    [][\A p \in Procs : Update404(p) => ~local[p].modified]_vars

\* C10, as the code has it: a PUT ends in 404 only when no stored document
\* has its id, and that step changes nothing; a PUT whose update_one modified
\* a document goes on to the second find_one only when the document is gone;
\* and a document leaves the collection only by the delete_one of a DELETE.
C10_NotFoundMeansAbsent ==
    [][/\ \A p \in Procs :
            Update404(p) =>
                /\ local[p].id \notin Ids(students)
                /\ students' = students
       /\ \A p \in Procs :
            (pc[p] = "update_refetch" /\ pc'[p] = "update_fallback") =>
                local[p].id \notin Ids(students)
       /\ Ids(students) \ Ids(students') # {} =>
            /\ lastCall'.call = "delete_one"
            /\ Ids(students) \ Ids(students') = {lastCall'.id}]_vars

\* a PUT that modified a document is about to be answered 404: the document
\* has been deleted meanwhile
C10_Witness ==
    \E p \in Procs :
        /\ pc[p] = "update_fallback"
        /\ local[p].modified
        /\ local[p].id \notin Ids(students)

====
